---- MODULE Spec2Model ----
(***************************************************************************)
(* Model of the Solar Manager forecast integration:                        *)
(*   solar_manager_forecast.py  (Estimate, its queries, the HTTP client)   *)
(*   coordinator.py             (the refresh cycle)                        *)
(*                                                                         *)
(* A datetime is a record [hour, minute, second, microsecond]; the date is *)
(* folded into the hour count.  All datetimes held by an Estimate are      *)
(* aware datetimes in the Estimate's timezone, so comparing two of them    *)
(* compares instants.  An ordered dict is a sequence of <<key, value>>     *)
(* pairs in insertion order, with no key twice.                            *)
(***************************************************************************)
EXTENDS Integers, Sequences, FiniteSets, TLC

VARIABLES
    entries,    \* the list the Estimate is built from
    estimate,   \* the current Estimate (coordinator.data): None, or Some(Estimate)
    clock,      \* what dt.datetime.now(timezone) returns
    last,       \* the last call made: [op, arg, result]
    client,     \* SolarManagerSolarForecast: [base_url, pc, requests]
    refresh     \* how the coordinator's last _async_update_data ended

vars == <<entries, estimate, clock, last, client, refresh>>

\* Optional[x]: None is the empty sequence, a value x is <<x>>
None == <<>>
Some(x) == <<x>>

----------------------------------------------------------------------------
(* datetime *)

DateTime(h, mi, s, us) == [hour |-> h, minute |-> mi, second |-> s, microsecond |-> us]

\* seconds since the model's epoch, the microsecond field left out
Seconds(d) == d.hour * 3600 + d.minute * 60 + d.second

\* datetime.__lt__ / __le__ on aware datetimes
DtLess(a, b) ==
    \/ Seconds(a) < Seconds(b)
    \/ Seconds(a) = Seconds(b) /\ a.microsecond < b.microsecond

DtLeq(a, b) == a = b \/ DtLess(a, b)

\* d + dt.timedelta(hours = h)
PlusHours(d, h) == [d EXCEPT !.hour = d.hour + h]

\* d + dt.timedelta(minutes = m), for a whole number of minutes
PlusMinutes(d, m) ==
    LET total == d.hour * 60 + d.minute + m
    IN  [d EXCEPT !.hour = total \div 60, !.minute = total % 60]

\* (t_end - t_start).total_seconds(), for datetimes on whole seconds
TotalSeconds(t_end, t_start) == Seconds(t_end) - Seconds(t_start)

----------------------------------------------------------------------------
(* ordered dict *)

Keys(d) == { d[i][1] : i \in 1..Len(d) }

HasKey(d, k) == \E i \in 1..Len(d) : d[i][1] = k

Get(d, k) == d[CHOOSE i \in 1..Len(d) : d[i][1] = k][2]

\* d[k] = v : an existing key keeps its place, a new key goes last
Put(d, k, v) ==
    IF HasKey(d, k)
    THEN [i \in 1..Len(d) |-> IF d[i][1] = k THEN <<k, v>> ELSE d[i]]
    ELSE Append(d, <<k, v>>)

----------------------------------------------------------------------------
(* _timed_value and _interval_value_sum *)

\* the for loop of _timed_value, from item i on, with `value` the last value kept
RECURSIVE TimedScan(_, _, _, _)
TimedScan(at, data, i, value) ==
    IF i > Len(data) THEN value
    ELSE IF DtLess(at, data[i][1]) THEN value
    ELSE TimedScan(at, data, i + 1, data[i][2])

\* the loop stopping at `timestamp >= at` instead of `timestamp > at`
RECURSIVE TimedScanStopAtEqual(_, _, _, _)
TimedScanStopAtEqual(at, data, i, value) ==
    IF i > Len(data) THEN value
    ELSE IF DtLeq(at, data[i][1]) THEN value
    ELSE TimedScanStopAtEqual(at, data, i + 1, data[i][2])

timed_value_StopAtEqual(at, data) ==
    IF data = <<>> THEN None
    ELSE IF DtLeq(at, data[1][1]) THEN Some(data[1][2])
    ELSE Some(TimedScanStopAtEqual(at, data, 2, data[1][2]))

_timed_value(at, data) ==
    IF data = <<>> THEN None
    ELSE IF DtLeq(at, data[1][1]) THEN Some(data[1][2])
    ELSE Some(TimedScan(at, data, 2, data[1][2]))

\* start <= timestamp <= end
InInterval_InclusiveStart(start, end, timestamp) ==
    DtLeq(start, timestamp) /\ DtLeq(timestamp, end)

\* timestamp <= end, the lower bound forgotten
InInterval_NoStart(start, end, timestamp) == DtLeq(timestamp, end)

\* start < timestamp <= end
InInterval(start, end, timestamp) == DtLess(start, timestamp) /\ DtLeq(timestamp, end)

\* the for loop of _interval_value_sum, from item i on
RECURSIVE IntervalScan(_, _, _, _, _)
IntervalScan(start, end, data, i, total) ==
    IF i > Len(data) THEN total
    ELSE IntervalScan(start, end, data, i + 1,
                      IF InInterval(start, end, data[i][1])
                      THEN total + data[i][2] ELSE total)

_interval_value_sum(start, end, data) == IntervalScan(start, end, data, 1, 0)

----------------------------------------------------------------------------
(* Estimate: the dataclass and its queries *)

Estimate(watts, wh_period, wh_hours) ==
    [watts |-> watts, wh_period |-> wh_period, wh_hours |-> wh_hours]

\* no default: an absent value handed on, written -1 to tell it from a power
OrZero_Absent(x) == IF x = None THEN -1 ELSE x[1]

\* `x or 0`
OrZero(x) == IF x = None \/ x = Some(0) THEN 0 ELSE x[1]

power_production_at_time(est, at) == OrZero(_timed_value(at, est.watts))

power_production_now(est, t_now) == power_production_at_time(est, t_now)

\* self.now().replace(minute=59, second=59, microsecond=999)
PinnedNow(t_now) == [t_now EXCEPT !.minute = 59, !.second = 59, !.microsecond = 999]

sum_energy_production(est, t_now, period_hours) ==
    LET start == PinnedNow(t_now)
        until == PlusHours(start, period_hours)
    IN  _interval_value_sum(start, until, est.wh_hours)

----------------------------------------------------------------------------
(* the raw entries of a payload *)

\* the "t" field of an entry: absent, or an ISO-8601 string.  The string
\* "2024-01-01THH:MM:00<suffix>" is kept as its hour, minute and suffix.
AbsentT == [kind |-> "absent", hour |-> 0, minute |-> 0, suffix |-> ""]
EmptyT == [kind |-> "empty", hour |-> 0, minute |-> 0, suffix |-> ""]
Iso(h, mi, suffix) == [kind |-> "iso", hour |-> h, minute |-> mi, suffix |-> suffix]

\* the "pW" field of an entry: absent, a JSON integer, or a JSON string that
\* is no number (such as "abc")
AbsentPW == [kind |-> "absent", value |-> 0]
IntPW(n) == [kind |-> "int", value |-> n]
TextPW == [kind |-> "text", value |-> 0]

Entry(t, pW) == [t |-> t, pW |-> pW]

\* the rank of a suffix in str ordering: "+" < "-" < "Z", and "" before all
SuffixRank(suffix) ==
    CASE suffix = "" -> 0
      [] suffix = "+00:00" -> 1
      [] suffix = "+01:00" -> 2
      [] suffix = "-01:00" -> 3
      [] suffix = "Z" -> 4

\* the UTC offset a suffix stands for, in minutes, "Z" read as "+00:00"
OffsetMinutes(suffix) ==
    CASE suffix = "+01:00" -> 60
      [] suffix = "-01:00" -> -60
      [] OTHER -> 0

\* str.__lt__ on two "t" strings: the empty string first, then character by
\* character, which is hour, minute, then suffix
StrLess(a, b) ==
    IF a.kind = "empty" \/ b.kind = "empty"
    THEN a.kind = "empty" /\ b.kind # "empty"
    ELSE \/ a.hour < b.hour
         \/ a.hour = b.hour /\ a.minute < b.minute
         \/ a.hour = b.hour /\ a.minute = b.minute
                /\ SuffixRank(a.suffix) < SuffixRank(b.suffix)

\* key=lambda e: e["t"]
KeyLess(a, b) == StrLess(a, b)

\* sorted() is stable: e goes after every item whose key is not greater
RECURSIVE InsertSorted(_, _)
InsertSorted(s, e) ==
    IF s = <<>> THEN <<e>>
    ELSE IF KeyLess(e.t, Head(s).t) THEN <<e>> \o s
    ELSE <<Head(s)>> \o InsertSorted(Tail(s), e)

RECURSIVE Sorted(_)
Sorted(s) ==
    IF s = <<>> THEN <<>>
    ELSE InsertSorted(Sorted(SubSeq(s, 1, Len(s) - 1)), s[Len(s)])

\* (e for e in entries if "t" in e)
WithT(s) == SelectSeq(s, LAMBDA e : e.t.kind # "absent")

\* the zone of the Estimate, as minutes east of UTC (dt.timezone.utc)
TimezoneOffset == 0

\* dt.datetime.fromisoformat(t_str.replace("Z", "+00:00")).astimezone(timezone)
ToLocal(t) ==
    LET total == t.hour * 60 + t.minute - OffsetMinutes(t.suffix) + TimezoneOffset
    IN  DateTime(total \div 60, total % 60, 0, 0)

----------------------------------------------------------------------------
(* Estimate.from_solar_manager_data *)

DefaultIntervalMinutes == 15

\* int(round(num / den)) for den > 0: round() rounds a half to the even side
Round(num, den) ==
    LET q == num \div den
        r == num % den
    IN  IF 2 * r < den THEN q
        ELSE IF 2 * r > den THEN q + 1
        ELSE IF q % 2 = 0 THEN q ELSE q + 1

\* the first loop, from item i of sorted_entries on.  The result carries
\* the exception raised ("" when none), timestamps_local and watts.
RECURSIVE ParseLoop(_, _, _, _)
ParseLoop(sorted_entries, i, timestamps_local, watts) ==
    IF i > Len(sorted_entries)
    THEN [exc |-> "", timestamps_local |-> timestamps_local, watts |-> watts]
    ELSE LET entry == sorted_entries[i]
         IN  IF entry.t.kind = "empty"
             THEN ParseLoop(sorted_entries, i + 1, timestamps_local, watts)
             ELSE IF entry.pW.kind = "text"
             THEN [exc |-> "ValueError", timestamps_local |-> timestamps_local,
                   watts |-> watts]
             ELSE LET t_local == ToLocal(entry.t)
                      power_w == entry.pW.value
                  IN  ParseLoop(sorted_entries, i + 1,
                                Append(timestamps_local, t_local),
                                Put(watts, t_local, power_w))

\* power_w * delta_hours, in watt-seconds (3600 to the watt-hour)
WattSeconds(power_w, t_start, t_end) == power_w * TotalSeconds(t_end, t_start)

\* the hour accumulating the already rounded period energy
HourShare_Rounded(power_w, t_start, t_end) ==
    3600 * Round(WattSeconds(power_w, t_start, t_end), 3600)

\* the hour accumulating every period as if it lasted the default interval
HourShare_DefaultInterval(power_w, t_start, t_end) ==
    power_w * 60 * DefaultIntervalMinutes

\* what one period adds to its hour's accumulator
HourShare(power_w, t_start, t_end) == WattSeconds(power_w, t_start, t_end)

\* t_start.replace(minute=0, second=0, microsecond=0)
HourStart(t_start) == [t_start EXCEPT !.minute = 0, !.second = 0, !.microsecond = 0]

\* the end of the period of timestamps_local[idx]
PeriodEnd(timestamps_local, idx) ==
    IF idx + 1 <= Len(timestamps_local)
    THEN timestamps_local[idx + 1]
    ELSE PlusMinutes(timestamps_local[idx], DefaultIntervalMinutes)

\* the second loop, from idx on; wh_hours_acc holds watt-seconds
RECURSIVE PeriodLoop(_, _, _, _, _)
PeriodLoop(timestamps_local, watts, idx, wh_period, wh_hours_acc) ==
    IF idx > Len(timestamps_local)
    THEN [wh_period |-> wh_period, wh_hours_acc |-> wh_hours_acc]
    ELSE LET t_start == timestamps_local[idx]
             power_w == Get(watts, t_start)
             t_end   == PeriodEnd(timestamps_local, idx)
         IN  IF TotalSeconds(t_end, t_start) <= 0
             THEN PeriodLoop(timestamps_local, watts, idx + 1, wh_period, wh_hours_acc)
             ELSE LET hour_start == HourStart(t_start)
                      so_far == IF HasKey(wh_hours_acc, hour_start)
                                THEN Get(wh_hours_acc, hour_start) ELSE 0
                  IN  PeriodLoop(timestamps_local, watts, idx + 1,
                          Put(wh_period, t_start,
                              Round(WattSeconds(power_w, t_start, t_end), 3600)),
                          Put(wh_hours_acc, hour_start,
                              so_far + HourShare(power_w, t_start, t_end)))

\* {ts: int(round(val)) for ts, val in wh_hours_acc.items()}
RoundHours(wh_hours_acc) ==
    [i \in 1..Len(wh_hours_acc) |->
        <<wh_hours_acc[i][1], Round(wh_hours_acc[i][2], 3600)>>]

\* the construction failing on a list with no usable entry
from_solar_manager_data_RaisesOnEmpty(entry_list) ==
    LET parsed == ParseLoop(Sorted(WithT(entry_list)), 1, <<>>, <<>>)
    IN  IF parsed.exc # ""
        THEN [exc |-> parsed.exc, estimate |-> None]
        ELSE IF parsed.timestamps_local = <<>>
        THEN [exc |-> "IndexError", estimate |-> None]
        ELSE LET periods == PeriodLoop(parsed.timestamps_local, parsed.watts, 1,
                                       <<>>, <<>>)
             IN  [exc |-> "",
                  estimate |-> Some(Estimate(parsed.watts, periods.wh_period,
                                             RoundHours(periods.wh_hours_acc)))]

\* the call: [exc, estimate], exc the exception raised ("" when none)
from_solar_manager_data(entry_list) ==
    LET parsed == ParseLoop(Sorted(WithT(entry_list)), 1, <<>>, <<>>)
    IN  IF parsed.exc # ""
        THEN [exc |-> parsed.exc, estimate |-> None]
        ELSE LET periods == PeriodLoop(parsed.timestamps_local, parsed.watts, 1,
                                       <<>>, <<>>)
             IN  [exc |-> "",
                  estimate |-> Some(Estimate(parsed.watts, periods.wh_period,
                                             RoundHours(periods.wh_hours_acc)))]

----------------------------------------------------------------------------
(* bounds and input domains of the query specification *)

MaxSamples == 3        \* longest series of a directly constructed Estimate
MaxPeriodHours == 2    \* largest period_hours asked of sum_energy_production

NoCall == [op |-> "none", arg |-> None, result |-> None]

\* no client constructed: the Estimate is used on its own
NoClient == [base_url |-> None, pc |-> "idle", requests |-> 0]

\* all ordered dicts of at most n items with keys in K and values in V
OrderedDicts(K, V, n) ==
    { d \in UNION { [1..m -> K \X V] : m \in 0..n } :
        \A i, j \in 1..Len(d) : d[i][1] = d[j][1] => i = j }

WattsKeys == { DateTime(10, 0, 0, 0), DateTime(10, 15, 0, 0),
               DateTime(10, 30, 0, 0), DateTime(10, 45, 0, 0) }
WattsValues == { 0, 100 }

\* times asked of power_production_at_time: the keys, and points around them
QueryTimes ==
    WattsKeys \cup { DateTime(9, 50, 0, 0), DateTime(10, 14, 59, 999999),
                     DateTime(10, 15, 0, 1), DateTime(10, 40, 0, 0),
                     DateTime(10, 50, 0, 0) }

\* keys of wh_hours: on the hour, and at the pinned instants of the hours
HourKeys == { DateTime(10, 0, 0, 0), DateTime(10, 59, 59, 999),
              DateTime(11, 0, 0, 0), DateTime(11, 59, 59, 999),
              DateTime(12, 0, 0, 0) }
HourValues == { 3, 5 }

Clocks == { DateTime(9, 30, 0, 0), DateTime(10, 0, 0, 0),
            DateTime(10, 20, 30, 500000), DateTime(10, 59, 59, 999999) }

----------------------------------------------------------------------------
(* the queries, as calls made on the current Estimate *)

QueryPowerAt(at) ==
    /\ estimate # None
    /\ last' = [op |-> "power_production_at_time", arg |-> at,
                result |-> power_production_at_time(estimate[1], at)]
    /\ UNCHANGED <<entries, estimate, clock, client, refresh>>

QueryPowerNow ==
    /\ estimate # None
    /\ last' = [op |-> "power_production_now", arg |-> None,
                result |-> power_production_now(estimate[1], clock)]
    /\ UNCHANGED <<entries, estimate, clock, client, refresh>>

QuerySumEnergy(period_hours) ==
    /\ estimate # None
    /\ last' = [op |-> "sum_energy_production", arg |-> period_hours,
                result |-> sum_energy_production(estimate[1], clock, period_hours)]
    /\ UNCHANGED <<entries, estimate, clock, client, refresh>>

----------------------------------------------------------------------------
(* SpecQuery: the queries on an Estimate constructed directly from series *)

InitQuery ==
    /\ entries = <<>>
    /\ \E w \in OrderedDicts(WattsKeys, WattsValues, MaxSamples),
          h \in OrderedDicts(HourKeys, HourValues, MaxSamples) :
          /\ w = <<>> \/ h = <<>>
          /\ estimate = Some(Estimate(w, <<>>, h))
    /\ clock \in Clocks
    /\ last = NoCall
    /\ client = NoClient
    /\ refresh = "none"

NextQuery ==
    \/ \E at \in QueryTimes : QueryPowerAt(at)
    \/ QueryPowerNow
    \/ \E n \in 0..MaxPeriodHours : QuerySumEnergy(n)

SpecQuery == InitQuery /\ [][NextQuery]_vars

----------------------------------------------------------------------------
(* SpecBuild: from_solar_manager_data on a drawn entry list *)

MaxEntries == 3        \* longest entry list drawn

\* "2024-01-01T11:00:00+01:00" is the instant of "2024-01-01T10:00:00Z"
IsoStrings == { Iso(10, 0, "Z"), Iso(10, 15, "Z"), Iso(10, 30, "Z"),
                Iso(11, 15, "Z"), Iso(11, 0, "+01:00") }

EntryDomain ==
    { Entry(t, pW) : t \in IsoStrings \cup {AbsentT},
                     pW \in {AbsentPW, IntPW(50), IntPW(100), TextPW} }

EntryLists == UNION { [1..m -> EntryDomain] : m \in 0..MaxEntries }

\* Estimate.from_solar_manager_data(entries, timezone)
Build ==
    /\ last.op = "none"
    /\ LET built == from_solar_manager_data(entries)
       IN  /\ estimate' = built.estimate
           /\ last' = [op |-> "from_solar_manager_data", arg |-> None,
                       result |-> built.exc]
    /\ UNCHANGED <<entries, clock, client, refresh>>

InitBuild ==
    /\ entries \in EntryLists
    /\ estimate = None
    /\ clock = DateTime(10, 20, 30, 500000)
    /\ last = NoCall
    /\ client = NoClient
    /\ refresh = "none"

NextBuild == Build

SpecBuild == InitBuild /\ [][NextBuild]_vars

----------------------------------------------------------------------------
(* SolarManagerSolarForecast.estimate and the coordinator's refresh *)

MaxPayload == 2        \* longest "data" list of a response
MaxAhead == 2          \* quarter hours ahead that the sensors ask the power of

\* a decoded response body: a JSON object or a JSON array at the top, and in
\* an object the "data" field absent, null or a list
Payload(kind, data, list) == [kind |-> kind, data |-> data, list |-> list]

PayloadEntries ==
    { Entry(Iso(10, 15, "Z"), IntPW(100)), Entry(Iso(11, 0, "+01:00"), AbsentPW),
      Entry(Iso(11, 15, "Z"), IntPW(100)), Entry(Iso(10, 15, "Z"), TextPW) }

Payloads ==
    { Payload("array", "absent", <<>>), Payload("object", "absent", <<>>),
      Payload("object", "null", <<>>) }
    \cup { Payload("object", "list", l) :
             l \in UNION { [1..m -> PayloadEntries] : m \in 0..MaxPayload } }

\* estimate() after the response was decoded: [exc, estimate]
\*   payload.get("data") on a body that is no object raises AttributeError
AfterResponse(payload) ==
    IF payload.kind # "object"
    THEN [exc |-> "AttributeError", estimate |-> None]
    ELSE IF payload.data # "list"
    THEN [exc |-> "SolarManagerForecastError", estimate |-> None]
    ELSE from_solar_manager_data(payload.list)

\* only the failure estimate() declares becomes UpdateFailed, any other
\* exception leaves the coordinator as it is
UpdateOutcome_TypedOnly(exc) ==
    IF exc = "" THEN "ok"
    ELSE IF exc = "SolarManagerForecastError" THEN "UpdateFailed" ELSE exc

\* _async_update_data: every exception of estimate() becomes UpdateFailed
UpdateOutcome(exc) == IF exc = "" THEN "ok" ELSE "UpdateFailed"

\* DataUpdateCoordinator.data after a refresh: the Estimate returned, and the
\* data held before when _async_update_data raised UpdateFailed
CoordinatorData(data, done) == IF done.exc = "" THEN done.estimate ELSE data

\* estimate() raising exc
Raised(exc) == [exc |-> exc, estimate |-> None]

\* __init__: the URL given wins, else the cloud URL of the account id, else
\* none; an empty string counts as not given
CloudUrl(smart_manager_id) ==
    <<"https://cloud.solar-manager.ch/v3/users/", smart_manager_id, "/data/forecast">>

ResolveBaseUrl(base_url, smart_manager_id) ==
    IF base_url # None /\ base_url # Some("")
    THEN base_url
    ELSE IF smart_manager_id # None /\ smart_manager_id # Some("")
         THEN Some(CloudUrl(smart_manager_id[1]))
         ELSE None

\* estimate() with no base URL: raises before any request
EstimateNoUrl ==
    /\ client.pc = "idle"
    /\ client.base_url = None
    /\ client' = [client EXCEPT !.requests = 0]
    /\ last' = [op |-> "estimate", arg |-> None,
                result |-> "SolarManagerForecastError"]
    /\ refresh' = UpdateOutcome("SolarManagerForecastError")
    /\ estimate' = CoordinatorData(estimate, Raised("SolarManagerForecastError"))
    /\ UNCHANGED <<entries, clock>>

\* estimate() issues the GET and awaits the response
EstimateGet ==
    /\ client.pc = "idle"
    /\ client.base_url # None
    /\ client' = [client EXCEPT !.pc = "awaiting", !.requests = 1]
    /\ last' = [op |-> "estimate", arg |-> None, result |-> "pending"]
    /\ UNCHANGED <<entries, estimate, clock, refresh>>

\* the request fails, the status is an error, or the body is no JSON
EstimateTransportError ==
    /\ client.pc = "awaiting"
    /\ client' = [client EXCEPT !.pc = "idle"]
    /\ last' = [op |-> "estimate", arg |-> None,
                result |-> "SolarManagerForecastError"]
    /\ refresh' = UpdateOutcome("SolarManagerForecastError")
    /\ estimate' = CoordinatorData(estimate, Raised("SolarManagerForecastError"))
    /\ UNCHANGED <<entries, clock>>

\* the response arrives and is decoded; the coordinator keeps the Estimate
\* returned, and keeps its data when the call raised
EstimateResponse(payload) ==
    /\ client.pc = "awaiting"
    /\ client' = [client EXCEPT !.pc = "idle"]
    /\ LET done == AfterResponse(payload)
       IN  /\ last' = [op |-> "estimate", arg |-> Some(payload), result |-> done.exc]
           /\ refresh' = UpdateOutcome(done.exc)
           /\ estimate' = CoordinatorData(estimate, done)
           /\ entries' = IF done.exc = "" THEN payload.list ELSE entries
    /\ UNCHANGED clock

\* time passes; within one behaviour it stays in the hour it began in
Tick ==
    /\ \E t \in Clocks :
           /\ DtLess(clock, t)
           /\ t.hour = clock.hour
           /\ clock' = t
    /\ UNCHANGED <<entries, estimate, last, client, refresh>>

Init ==
    /\ entries = <<>>
    /\ estimate = None
    /\ clock \in Clocks
    /\ last = NoCall
    /\ \E base_url \in { None, Some(""), Some(CloudUrl("id")) },
          smart_manager_id \in { None, Some("id") } :
            client = [base_url |-> ResolveBaseUrl(base_url, smart_manager_id),
                      pc |-> "idle", requests |-> 0]
    /\ refresh = "none"

Next ==
    \/ EstimateNoUrl
    \/ EstimateGet
    \/ EstimateTransportError
    \/ \E payload \in Payloads : EstimateResponse(payload)
    \/ \E i \in 1..MaxAhead : QueryPowerAt(PlusMinutes(clock, 15 * i))
    \/ QueryPowerNow
    \/ \E n \in 0..MaxPeriodHours : QuerySumEnergy(n)
    \/ Tick

Spec == Init /\ [][Next]_vars

----------------------------------------------------------------------------
(* helpers of the properties *)

\* keys in strictly ascending time order, in iteration order
Ascending(d) == \A i \in 1..(Len(d) - 1) : DtLess(d[i][1], d[i + 1][1])

\* the sum of f over the finite set S
RECURSIVE SumOver(_, _)
SumOver(S, f) ==
    IF S = {} THEN 0
    ELSE LET x == CHOOSE y \in S : TRUE IN f[x] + SumOver(S \ {x}, f)

\* the sum of the values of the items of d whose index is in I
SumAt(d, I) == SumOver(I, [i \in I |-> d[i][2]])

----------------------------------------------------------------------------
(* C1 *)

C1_Pre ==
    /\ estimate # None
    /\ last.op = "power_production_at_time"
    /\ estimate[1].watts # <<>>
    /\ Ascending(estimate[1].watts)
    /\ DtLess(estimate[1].watts[1][1], last.arg)
    /\ DtLess(last.arg, estimate[1].watts[Len(estimate[1].watts)][1])

\* C1: zero-order hold. On an Estimate whose watts keys ascend, for a time
\* strictly between the first and the last key, power_production_at_time
\* returns the value of the latest sample whose timestamp is <= the time
\* (so at a sample's own timestamp, that sample's value).
C1_ZeroOrderHold ==
    C1_Pre =>
        LET w == estimate[1].watts
        IN  \E i \in 1..Len(w) :
                /\ DtLeq(w[i][1], last.arg)
                /\ \A j \in 1..Len(w) :
                       DtLeq(w[j][1], last.arg) => DtLeq(w[j][1], w[i][1])
                /\ last.result = w[i][2]

\* a query exactly at a sample's timestamp, whose value differs from its
\* predecessor's, answered with the sample's own value
C1_Witness ==
    /\ C1_Pre
    /\ LET w == estimate[1].watts
       IN  \E i \in 2..Len(w) :
               /\ w[i][1] = last.arg
               /\ w[i][2] # w[i - 1][2]
               /\ last.result = w[i][2]

----------------------------------------------------------------------------
(* C3 *)

\* C3: sum_energy_production(period_hours) is the sum of exactly the wh_hours
\* entries with start < key <= end, where start is the current time pinned to
\* :59:59 (microsecond 999) and end is start plus period_hours hours; 0 when
\* no key lies in the interval.
C3_IntervalSum ==
    (estimate # None /\ last.op = "sum_energy_production") =>
        LET h     == estimate[1].wh_hours
            start == DateTime(clock.hour, 59, 59, 999)
            end   == DateTime(clock.hour + last.arg, 59, 59, 999)
            In    == { i \in 1..Len(h) :
                         /\ h[i][1] # start
                         /\ DtLeq(start, h[i][1])
                         /\ DtLeq(h[i][1], end) }
        IN  last.result = SumAt(h, In)

\* an entry exactly at start and one exactly at end, and the sum is the
\* value of the one at end alone
C3_Witness ==
    /\ estimate # None
    /\ last.op = "sum_energy_production"
    /\ last.arg > 0
    /\ LET h     == estimate[1].wh_hours
           start == DateTime(clock.hour, 59, 59, 999)
           end   == DateTime(clock.hour + last.arg, 59, 59, 999)
       IN  /\ HasKey(h, start)
           /\ HasKey(h, end)
           /\ Get(h, start) # Get(h, end)
           /\ last.result = Get(h, end)

----------------------------------------------------------------------------
(* the built Estimate, and the input it was built from *)

Built == last.op = "from_solar_manager_data" /\ last.result = "" /\ estimate # None

\* the filtered input samples: the entries that carry a timestamp
Samples == { i \in 1..Len(entries) : entries[i].t.kind = "iso" }

Instant(i) == ToLocal(entries[i].t)

DistinctTimestamps == \A i, j \in Samples : Instant(i) = Instant(j) => i = j

\* seconds from sample i to the next sample in time, the default interval
\* after the last one
DurationSeconds(i) ==
    LET later == { j \in Samples : DtLess(Instant(i), Instant(j)) }
    IN  IF later = {} THEN 60 * DefaultIntervalMinutes
        ELSE LET n == CHOOSE j \in later :
                         \A k \in later : DtLeq(Instant(j), Instant(k))
             IN  Seconds(Instant(n)) - Seconds(Instant(i))

\* v is an integer nearest to num / den
Nearest(v, num, den) ==
    /\ 2 * (den * v - num) <= den
    /\ 2 * (num - den * v) <= den

\* every sample's UTC offset is the same, so the strings sort as the instants
SameOffset == \A i, j \in Samples : entries[i].t.suffix = entries[j].t.suffix

----------------------------------------------------------------------------
(* C5 *)

\* C5: for entries with distinct timestamps, wh_period[t_i] is power_i times
\* the hours from t_i to t_(i+1), rounded to a nearest integer, the last
\* sample taking the default 15 minutes.
C5_PerPeriodEnergy ==
    (Built /\ DistinctTimestamps) =>
        \A i \in Samples :
            /\ HasKey(estimate[1].wh_period, Instant(i))
            /\ Nearest(Get(estimate[1].wh_period, Instant(i)),
                       entries[i].pW.value * DurationSeconds(i), 3600)

\* the same, for samples that all carry one UTC offset
C5_PerPeriodEnergy_SameOffset == SameOffset => C5_PerPeriodEnergy

----------------------------------------------------------------------------
(* C6 *)

\* timestamps_local, as the construction walks it
Walked ==
    LET sorted_entries == Sorted(WithT(entries))
    IN  [i \in 1..Len(sorted_entries) |-> ToLocal(sorted_entries[i].t)]

\* seconds of the period the construction gives item idx of Walked
WalkedSeconds(idx) ==
    IF idx < Len(Walked)
    THEN Seconds(Walked[idx + 1]) - Seconds(Walked[idx])
    ELSE 60 * DefaultIntervalMinutes

\* the periods emitted: those of positive duration
Periods == { idx \in 1..Len(Walked) : WalkedSeconds(idx) > 0 }

PeriodsOfHour(h) == { idx \in Periods : Walked[idx].hour = h }

\* the unrounded energy of period idx, in watt-seconds
PeriodEnergy(idx) == Get(estimate[1].watts, Walked[idx]) * WalkedSeconds(idx)

----------------------------------------------------------------------------
(* C7 *)

\* C7: the keys of watts and of wh_period are strictly increasing in time in
\* iteration order, and are the timestamps of the filtered input samples,
\* one key for each sample when the samples' timestamps are distinct.
C7_KeysIncreasing ==
    Built =>
        /\ Ascending(estimate[1].watts)
        /\ Ascending(estimate[1].wh_period)
        /\ Keys(estimate[1].watts) = { Instant(i) : i \in Samples }
        /\ Keys(estimate[1].wh_period) = { Instant(i) : i \in Samples }
        /\ DistinctTimestamps => Len(estimate[1].watts) = Cardinality(Samples)

\* the same, for samples that all carry one UTC offset
C7_KeysIncreasing_SameOffset == SameOffset => C7_KeysIncreasing

----------------------------------------------------------------------------
(* C8 *)

\* the entries that are well-formed: a timestamp, and a power that is absent
\* or a number
WellFormed == { i \in Samples : entries[i].pW.kind # "text" }

\* C8: from_solar_manager_data never raises on malformed per-sample data;
\* the malformed entries are left out and the others are kept.
C8_NeverRaises ==
    last.op = "from_solar_manager_data" =>
        /\ last.result = ""
        /\ estimate # None
        /\ Keys(estimate[1].watts) = { Instant(i) : i \in WellFormed }

\* the part of C8 about entries without a time field alone
C8_MissingTimeDropped ==
    (last.op = "from_solar_manager_data" /\ WellFormed = Samples) =>
        /\ last.result = ""
        /\ estimate # None
        /\ Keys(estimate[1].watts) = { Instant(i) : i \in Samples }

----------------------------------------------------------------------------
(* C2 *)

\* the index of the earliest and of the latest key of a non-empty series
EarliestIdx(d) == CHOOSE i \in 1..Len(d) : \A j \in 1..Len(d) : DtLeq(d[i][1], d[j][1])
LatestIdx(d) == CHOOSE i \in 1..Len(d) : \A j \in 1..Len(d) : DtLeq(d[j][1], d[i][1])

\* C2: on every non-empty Estimate, power_production_at_time returns the
\* first sample's value for a time at or before the first timestamp, and
\* the last sample's value for a time at or after the last timestamp.
C2_Clamping ==
    (estimate # None /\ last.op = "power_production_at_time"
        /\ estimate[1].watts # <<>>) =>
        LET w == estimate[1].watts
        IN  /\ DtLeq(last.arg, w[EarliestIdx(w)][1])
                => last.result = w[EarliestIdx(w)][2]
            /\ DtLeq(w[LatestIdx(w)][1], last.arg)
                => last.result = w[LatestIdx(w)][2]

\* the same, on an Estimate whose watts keys ascend in iteration order
C2_Clamping_Ascending ==
    (estimate # None /\ Ascending(estimate[1].watts)) => C2_Clamping

----------------------------------------------------------------------------
(* C4 *)

\* sum_energy_production(0) was asked of an Estimate whose only wh_hours
\* entry is at the top of the current hour, the clock off the minute boundary
C4_Pre ==
    /\ estimate # None
    /\ last.op = "sum_energy_production"
    /\ last.arg = 0
    /\ Len(estimate[1].wh_hours) = 1
    /\ estimate[1].wh_hours[1][1] = DateTime(clock.hour, 0, 0, 0)
    /\ (clock.second # 0 \/ clock.microsecond # 0)

\* C4 as stated: the call returns that entry's value
C4_IncludesCurrentHour == C4_Pre => last.result = estimate[1].wh_hours[1][2]

\* C4 as amended: the call returns 0, the current hour's energy left out
C4_ExcludesCurrentHour == C4_Pre => last.result = 0

C4_Witness ==
    /\ C4_Pre
    /\ estimate[1].wh_hours[1][2] > 0
    /\ last.result = 0

----------------------------------------------------------------------------
(* C9 *)

EmptyEstimate == Estimate(<<>>, <<>>, <<>>)

\* C9: building from an empty entry list raises nothing and yields an
\* Estimate with watts, wh_period and wh_hours empty, on which
\* power_production_now is 0 and sum_energy_production(n) is 0 for every n.
C9_EmptyInput ==
    /\ (last.op = "estimate" /\ last.arg = Some(Payload("object", "list", <<>>)))
           => (last.result = "" /\ estimate = Some(EmptyEstimate))
    /\ (estimate # None /\ entries = <<>>)
           => /\ estimate = Some(EmptyEstimate)
              /\ last.op = "power_production_now" => last.result = 0
              /\ last.op = "sum_energy_production" => last.result = 0

\* the Estimate of an empty list asked for the energy of the coming hours
C9_Witness ==
    /\ estimate = Some(EmptyEstimate)
    /\ entries = <<>>
    /\ last.op = "sum_energy_production"
    /\ last.arg > 0
    /\ last.result = 0

\* the same Estimate asked for the power now
C9_WitnessPowerNow ==
    /\ estimate = Some(EmptyEstimate)
    /\ entries = <<>>
    /\ last.op = "power_production_now"
    /\ last.result = 0

----------------------------------------------------------------------------
(* C10 *)

\* a response body was received and decoded by the last estimate() call
Received == last.op = "estimate" /\ last.arg # None

\* the entries of the body's data list are all well-formed
DataWellFormed(payload) ==
    \A i \in 1..Len(payload.list) : payload.list[i].pW.kind # "text"

\* C10: whatever the top-level shape of the decoded body, estimate() fails
\* with SolarManagerForecastError when the top-level data field is absent or
\* no list, and no other exception escapes then; otherwise (here: for a data
\* list of well-formed entries) it returns the Estimate built from data.
C10_FormatFailure ==
    Received =>
        LET payload == last.arg[1]
        IN  IF payload.kind = "object" /\ payload.data = "list"
            THEN DataWellFormed(payload)
                     => /\ last.result = ""
                        /\ estimate = from_solar_manager_data(payload.list).estimate
            ELSE last.result = "SolarManagerForecastError"

\* the same, for bodies that are JSON objects
C10_FormatFailure_Objects ==
    (Received /\ last.arg[1].kind = "object") => C10_FormatFailure

----------------------------------------------------------------------------
(* C11: one attempt per call of estimate() *)

\* a call of estimate() has ended
Ended == last.op = "estimate" /\ last.result # "pending"

\* the failure estimate() declares: SolarManagerForecastError
TypedFailure == "SolarManagerForecastError"

\* C11: a call of estimate() that has ended issued at most one GET and is
\* not trying again, it ended with an Estimate or with the typed failure, and
\* with no URL configured it ended with that failure and issued no request.
C11_OneAttempt ==
    Ended =>
        /\ client.requests <= 1
        /\ client.pc = "idle"
        /\ last.result \in { "", TypedFailure }
        /\ client.base_url = None =>
               last.result = TypedFailure /\ client.requests = 0

\* the same without the kind of the failure: at most one GET, no second
\* attempt, and no request without a URL
C11_OneAttempt_AnyFailure ==
    Ended =>
        /\ client.requests <= 1
        /\ client.pc = "idle"
        /\ client.base_url = None =>
               last.result = TypedFailure /\ client.requests = 0

C11_WitnessNoUrl == Ended /\ client.base_url = None /\ client.requests = 0

C11_WitnessFailedGet ==
    /\ Ended
    /\ client.requests = 1
    /\ last.result = TypedFailure
    /\ refresh = "UpdateFailed"

----------------------------------------------------------------------------
(* C12: the two energy tables add up to the same total, within rounding *)

Abs(x) == IF x < 0 THEN -x ELSE x

SumValues(d) == SumAt(d, 1..Len(d))

\* twice the distance between the total of wh_period and that of wh_hours
TwiceSumGap ==
    2 * Abs(SumValues(estimate[1].wh_period) - SumValues(estimate[1].wh_hours))

\* C12: for every Estimate built, the sum of the wh_period values differs
\* from the sum of the wh_hours values by at most 0.5 times the number of
\* wh_period entries.
C12_SumsAgree_AnyInput == Built => TwiceSumGap <= Len(estimate[1].wh_period)

C12_SumsAgree_BothTables_AnyInput ==
    Built => TwiceSumGap <= Len(estimate[1].wh_period) + Len(estimate[1].wh_hours)

----------------------------------------------------------------------------
(* C13: the power lookup on an Estimate without samples *)

C13_Pre ==
    /\ estimate # None
    /\ estimate[1].watts = <<>>
    /\ last.op = "power_production_at_time"

\* C13: with watts empty, power_production_at_time does not return 0 (it
\* returns None, and only power_production_now and the callers make it 0).
C13_AbsentNotZero == C13_Pre => last.result # 0

\* C13 as amended: with watts empty, _timed_value finds nothing (None) and
\* power_production_at_time itself makes it 0; power_production_now, which
\* calls it, returns 0 as well.
C13_ZeroInside ==
    /\ C13_Pre =>
           /\ _timed_value(last.arg, estimate[1].watts) = None
           /\ last.result = 0
    /\ (estimate # None /\ estimate[1].watts = <<>>
            /\ last.op = "power_production_now") => last.result = 0

C13_Witness ==
    /\ C13_Pre
    /\ estimate[1].wh_hours # <<>>
    /\ _timed_value(last.arg, estimate[1].watts) = None
    /\ last.result = 0

----------------------------------------------------------------------------
(* C14: the Estimate the coordinator holds over refresh cycles *)

\* a refresh cycle ends in this step
CycleEnds == last' # last /\ last'.op = "estimate" /\ last'.result # "pending"

\* C14: a cycle that fails, with the typed failure or with any other
\* exception, is reported as UpdateFailed and leaves the Estimate held as it
\* was; a cycle that succeeds puts the Estimate newly built from its response
\* in its place; and nothing but a cycle that succeeds changes the Estimate.
C14_Step ==
    /\ (CycleEnds /\ last'.result # "") =>
           refresh' = "UpdateFailed" /\ estimate' = estimate
    /\ (CycleEnds /\ last'.result = "") =>
           /\ refresh' = "ok"
           /\ last'.arg # None
           /\ estimate' = from_solar_manager_data(last'.arg[1].list).estimate
    /\ estimate' # estimate => (CycleEnds /\ last'.result = "")

C14_CurrentEstimate == [][C14_Step]_vars

\* a cycle failed with an exception other than the typed one, after an
\* earlier cycle had built an Estimate, which is still held
C14_Witness ==
    /\ Ended
    /\ last.result \notin { "", TypedFailure }
    /\ refresh = "UpdateFailed"
    /\ estimate # None
    /\ estimate[1].watts # <<>>
    /\ estimate = from_solar_manager_data(entries).estimate

----------------------------------------------------------------------------
(* C15: sum_energy_production counts the hours after the current one *)

OnTheHour(t) == t.minute = 0 /\ t.second = 0 /\ t.microsecond = 0

\* the wh_hours value keyed at the top of hour h, 0 when there is none
HourBucket(h) ==
    LET t == DateTime(h, 0, 0, 0)
    IN  IF HasKey(estimate[1].wh_hours, t) THEN Get(estimate[1].wh_hours, t) ELSE 0

\* C15: on the Estimate a refresh built, with the current time anywhere in
\* hour H, the last sum_energy_production(n) returned the sum of the wh_hours
\* entries keyed at the tops of hours H+1 .. H+n, the entry of hour H never
\* among them; the current time may have moved on within hour H since the
\* call, the sum is the same.
C15_UpcomingHours ==
    (estimate # None /\ last.op = "sum_energy_production") =>
        LET upcoming == (clock.hour + 1)..(clock.hour + last.arg)
        IN  /\ \A k \in 1..Len(estimate[1].wh_hours) :
                   OnTheHour(estimate[1].wh_hours[k][1])
            /\ last.result = SumOver(upcoming, [h \in upcoming |-> HourBucket(h)])

\* an hour of energy both in the current hour and in the next one, the
\* current time past the top of the hour: only the next hour is counted
C15_Witness ==
    /\ estimate # None
    /\ last.op = "sum_energy_production"
    /\ last.arg = 1
    /\ \neg OnTheHour(clock)
    /\ HourBucket(clock.hour) > 0
    /\ HourBucket(clock.hour + 1) > 0
    /\ HourBucket(clock.hour + 1) # HourBucket(clock.hour)
    /\ last.result = HourBucket(clock.hour + 1)

====
